---------------------------- MODULE Spec2Model ----------------------------
(***************************************************************************)
(* Model of the escalation / agent-assignment subsystem and of the         *)
(* conversation state machine of the MedinovAI chat platform:              *)
(*   src/src/orchestration/escalation_manager.py  (EscalationManager)      *)
(*   src/src/orchestration/chat_orchestrator.py   (ChatOrchestrator)       *)
(*                                                                         *)
(* Every coroutine of the two classes runs on one asyncio event loop, so a *)
(* handler is atomic between two awaits that really suspend.  The only     *)
(* suspending await in the modelled code is the AI call of                 *)
(* process_message (ai_engine.generate_response); the Mattermost           *)
(* notifications either are skipped (self.mattermost is None, or the agent *)
(* has no mattermost_user_id) or raise at once, because MattermostAdapter  *)
(* defines neither send_message nor send_direct_message.                   *)
(*                                                                         *)
(* Specifications, all over the same variables:                            *)
(*   Spec   the orchestrator's calls, agent status updates and the         *)
(*          matching pass, while the clock stands still                    *)
(*   SpecT  Spec with the clock, the SLA monitor and the timeout monitor   *)
(*   SpecM  the escalation manager's own operations, under the clock       *)
(*   SpecQ  SpecM with two conversations and room for a queue of tickets   *)
(*   SpecD  the escalation manager while the clock stands still            *)
(*   SpecL  the message logs: the conversation handlers and the two sweeps *)
(*          of the orchestrator, bounded by the number of messages         *)
(*   SpecI  the insertions into the queue, with max_queue_size 3           *)
(*   SpecF  requests, agent status updates and the matching pass, the      *)
(*          matching pass being weakly fair (its task runs for ever)       *)
(*   SpecP  one conversation with messages that match no keyword, long     *)
(*          enough for the loop rule of the escalation triggers            *)
(*   SpecU  the urgency level that ContextManager.update_context           *)
(*          (src/src/orchestration/context_manager.py) keeps for a         *)
(*          conversation                                                   *)
(***************************************************************************)
EXTENDS Integers, Sequences, FiniteSets, TLC

(***************************************************************************)
(* Bounds of the model.                                                    *)
(***************************************************************************)
\* Spec, the orchestrator and the manager while the clock stands still:
\* conversations ever started, tickets ever created (uuid4 ids are modelled
\* as 1, 2, ...), messages in one conversation's log, and process_message
\* calls of one conversation that are suspended in the AI call
MaxConvs == 1
MaxTickets == 2
MaxLog == 3
MaxInflight == 1
\* SpecT, the orchestrator and the manager under the clock: tickets ever
\* created
MaxTicketsT == 1
\* SpecM, the escalation manager on its own: tickets ever created
MaxTicketsM == 1
\* SpecQ, the escalation manager with a queue of several tickets
MaxTicketsQ == 2
\* SpecD, the escalation manager while the clock stands still
MaxTicketsD == 3
\* SpecI, the insertions into the queue: tickets ever created
MaxTicketsI == 3
\* SpecF, the matching pass under fair scheduling: tickets ever created
MaxTicketsF == 2
\* SpecP, the escalation rules on a long conversation: messages in the log
MaxLogP == 8
\* the messages, replies awaited included, of the specification of the
\* urgency level
MaxMsgsU == 7
\* the clock advances MaxTicks times, by TickMinutes minutes each time
TickMinutes == 20
MaxTicks == 1

\* the specification of the message logs: messages in all logs together
\* (counting the replies of the suspended calls), and its coarser clock
MaxMsgsL == 4
TickMinutesL == 61
MaxTicksL == 1
\* the values of EscalationManager.max_queue_size; the source sets 100
\* (escalation_manager.py:116), scaled down so that the full-queue branch
\* of _add_to_queue is exercised; the specification of the insertions
\* needs a queue of three tickets
MaxQueue == 2
MaxQueueI == 3

(***************************************************************************)
(* Texts.  A text is a sequence of one-character strings, so that Python's *)
(* `keyword in text.lower()` is a real substring test.                     *)
(***************************************************************************)
LowerChar(ch) ==
    CASE ch = "A" -> "a"
      [] ch = "I" -> "i"
      [] ch = "M" -> "m"
      [] OTHER -> ch

Lower(s) == [i \in DOMAIN s |-> LowerChar(s[i])]

\* Python `k in s` for strings
Contains(s, k) ==
    \E i \in 0..(Len(s) - Len(k)) :
        \A j \in 1..Len(k) : s[i + j] = k[j]

\* Python any(keyword in s for keyword in keywords)
AnyKeyword(s, keywords) ==
    \E n \in DOMAIN keywords : Contains(s, keywords[n])

\* the user messages the model sends, by name
MessageNames == {"human", "complaint", "refill", "hours", "hello", "chest", "worried"}

MessageText(m) ==
    CASE m = "human" ->
           <<"I"," ","w","a","n","t"," ","t","o"," ","s","p","e","a","k"," ","t","o"," ","a"," ","h","u","m","a","n">>
      [] m = "complaint" ->
           <<"I"," ","h","a","v","e"," ","a"," ","c","o","m","p","l","a","i","n","t">>
      [] m = "refill" ->
           <<"r","e","f","i","l","l"," ","p","l","e","a","s","e">>
      [] m = "hours" ->
           <<"o","p","e","n","i","n","g"," ","h","o","u","r","s">>
      [] m = "chest" ->
           <<"I"," ","h","a","v","e"," ","c","h","e","s","t"," ","p","a","i","n">>
      [] m = "worried" ->
           <<"I"," ","a","m"," ","w","o","r","r","i","e","d">>
      [] OTHER ->
           <<"h","e","l","l","o">>

\* the escalation reasons the model uses, by name
ReasonNames == {"ai", "billing", "doctor", "manual"}

ReasonText(r) ==
    CASE r = "ai" ->
           <<"A","I"," ","t","r","i","g","g","e","r","e","d"," ","e","s","c","a","l","a","t","i","o","n">>
      [] r = "billing" ->
           <<"b","i","l","l","i","n","g"," ","q","u","e","s","t","i","o","n">>
      [] r = "doctor" ->
           <<"n","e","e","d"," ","a"," ","d","o","c","t","o","r">>
      [] OTHER ->
           <<"M","a","n","u","a","l"," ","a","s","s","i","g","n","m","e","n","t">>

escalation_keywords ==
    << <<"e","m","e","r","g","e","n","c","y">>,
       <<"u","r","g","e","n","t">>,
       <<"c","o","m","p","l","a","i","n","t">>,
       <<"s","p","e","a","k"," ","t","o"," ","h","u","m","a","n">>,
       <<"t","a","l","k"," ","t","o"," ","p","e","r","s","o","n">>,
       <<"t","h","i","s"," ","i","s","n","'","t"," ","w","o","r","k","i","n","g">>,
       <<"f","r","u","s","t","r","a","t","e","d">>,
       <<"a","n","g","r","y">>,
       <<"l","a","w","s","u","i","t">>,
       <<"s","u","e">>,
       <<"t","e","r","r","i","b","l","e"," ","s","e","r","v","i","c","e">> >>

\* the categories table of _categorize_escalation, in dict order
categories ==
    << [category |-> "billing", keywords |-> << <<"b","i","l","l","i","n","g">>, <<"p","a","y","m","e","n","t">>, <<"i","n","s","u","r","a","n","c","e">>, <<"c","o","s","t">> >>],
       [category |-> "clinical", keywords |-> << <<"m","e","d","i","c","a","l">>, <<"d","o","c","t","o","r">>, <<"d","i","a","g","n","o","s","i","s">>, <<"t","r","e","a","t","m","e","n","t">> >>],
       [category |-> "pharmacy", keywords |-> << <<"p","r","e","s","c","r","i","p","t","i","o","n">>, <<"m","e","d","i","c","a","t","i","o","n">>, <<"d","r","u","g">>, <<"p","h","a","r","m","a","c","y">> >>],
       [category |-> "technical", keywords |-> << <<"n","o","t"," ","w","o","r","k","i","n","g">>, <<"e","r","r","o","r">>, <<"b","u","g">>, <<"b","r","o","k","e","n">> >>],
       [category |-> "complaint", keywords |-> << <<"c","o","m","p","l","a","i","n","t">>, <<"f","r","u","s","t","r","a","t","e","d">>, <<"a","n","g","r","y">>, <<"d","i","s","s","a","t","i","s","f","i","e","d">> >> ] >>

\* EscalationManager._categorize_escalation: first category with a keyword
\* in the lower-cased reason, else "general"
_categorize_escalation(reason) ==
    LET hits == {n \in DOMAIN categories :
                    AnyKeyword(Lower(reason), categories[n].keywords)}
    IN  IF hits = {} THEN "general"
        ELSE categories[CHOOSE n \in hits : \A k \in hits : n <= k].category

\* _categorize_escalation tabulated over the reasons of the model
CategoryOf == [r \in ReasonNames |-> _categorize_escalation(ReasonText(r))]

\* the keyword test of _check_escalation_triggers, lines 473-477
KeywordTrigger(text) == AnyKeyword(Lower(text), escalation_keywords)

\* KeywordTrigger tabulated over the messages of the model
KeywordMessages == {m \in MessageNames : KeywordTrigger(MessageText(m))}

(***************************************************************************)
(* The urgency of the context manager.  A level is a Python string, and    *)
(* update_context compares two levels with the `>` of strings: character   *)
(* by character, by code point.                                            *)
(***************************************************************************)
urgent_keywords ==
    << <<"e","m","e","r","g","e","n","c","y">>,
       <<"u","r","g","e","n","t">>,
       <<"s","e","v","e","r","e">>,
       <<"s","e","r","i","o","u","s">>,
       <<"c","r","i","t","i","c","a","l">>,
       <<"c","h","e","s","t"," ","p","a","i","n">>,
       <<"c","a","n","'","t"," ","b","r","e","a","t","h","e">>,
       <<"b","l","e","e","d","i","n","g">>,
       <<"u","n","c","o","n","s","c","i","o","u","s">> >>

high_keywords ==
    << <<"p","a","i","n">>,
       <<"h","u","r","t">>,
       <<"w","o","r","r","i","e","d">>,
       <<"c","o","n","c","e","r","n","e","d">>,
       <<"p","r","o","b","l","e","m">>,
       <<"g","e","t","t","i","n","g"," ","w","o","r","s","e">>,
       <<"n","e","e","d"," ","h","e","l","p">> >>

\* ContextManager._detect_urgency
_detect_urgency(message) ==
    IF AnyKeyword(Lower(message), urgent_keywords) THEN "urgent"
    ELSE IF AnyKeyword(Lower(message), high_keywords) THEN "high"
    ELSE "normal"

\* _detect_urgency tabulated over the messages of the model
UrgencyOf == [m \in MessageNames |-> _detect_urgency(MessageText(m))]

\* the levels _detect_urgency returns and ConversationContext starts with
UrgencyLevels == {"normal", "high", "urgent"}

LevelText(l) ==
    CASE l = "normal" -> <<"n","o","r","m","a","l">>
      [] l = "high"   -> <<"h","i","g","h">>
      [] OTHER        -> <<"u","r","g","e","n","t">>

\* the place of a lower-case letter in the alphabet, which orders the
\* letters as their code points do
CharOrd(ch) ==
    LET alphabet == <<"a","b","c","d","e","f","g","h","i","j","k","l","m",
                      "n","o","p","q","r","s","t","u","v","w","x","y","z">>
    IN  CHOOSE i \in DOMAIN alphabet : alphabet[i] = ch

\* Python a > b for strings
RECURSIVE StrGreater(_, _)
StrGreater(a, b) ==
    IF a = <<>> THEN FALSE
    ELSE IF b = <<>> THEN TRUE
    ELSE IF Head(a) /= Head(b) THEN CharOrd(Head(a)) > CharOrd(Head(b))
    ELSE StrGreater(Tail(a), Tail(b))

\* StrGreater tabulated over the levels
UrgencyGreater ==
    [a \in UrgencyLevels, b \in UrgencyLevels |->
        StrGreater(LevelText(a), LevelText(b))]

(***************************************************************************)
(* Priorities and SLA tables.                                              *)
(***************************************************************************)
Priorities == {"low", "normal", "high", "urgent"}

\* priority_order of _add_to_queue
priority_order(p) ==
    CASE p = "urgent" -> 0
      [] p = "high"   -> 1
      [] p = "normal" -> 2
      [] OTHER        -> 3

\* EscalationManager._get_response_sla
_get_response_sla(p) ==
    CASE p = "urgent" -> 5
      [] p = "high"   -> 10
      [] p = "normal" -> 15
      [] OTHER        -> 30

\* the priority escalation of _handle_sla_breach and
\* handle_escalation_timeout: normal -> high -> urgent, others unchanged
BumpPriority(p) ==
    IF p = "normal" THEN "high"
    ELSE IF p = "high" THEN "urgent"
    ELSE p

(***************************************************************************)
(* The agents of _load_agents, in the insertion order of self.agents.      *)
(***************************************************************************)
NoAgent == "none"

AgentOrder == <<"agent_001", "agent_002">>

AgentIds == {AgentOrder[i] : i \in DOMAIN AgentOrder}

AgentLanguages(a) ==
    IF a = "agent_001" THEN {"en", "es"} ELSE {"en", "zh"}

AgentSpecialties(a) ==
    IF a = "agent_001" THEN {"general", "billing"} ELSE {"clinical", "pharmacy"}

max_concurrent_chats(a) ==
    IF a = "agent_001" THEN 5 ELSE 3

\* Agent.satisfaction_score, never written by the code: 0.0 for every agent
satisfaction_score(a) == 0

AgentStatuses == {"available", "busy", "away", "offline"}


(***************************************************************************)
(* State.                                                                  *)
(***************************************************************************)
VARIABLES
    mattermost,            \* self.mattermost is set (settings.mattermost_enabled)
    max_queue_size,        \* self.max_queue_size
    agents,                \* self.agents: id -> [status, current_load]
    tickets,               \* every EscalationTicket created so far; its id is its index
    escalation_queue,      \* self.escalation_queue: a list of ticket ids
    active_tickets,        \* self.active_tickets: ticket ids in the dict's insertion order
    conversations,         \* every Conversation created so far; its id is its index
    active_conversations,  \* self.active_conversations: conversation ids in insertion order
    pending_ai,            \* per conversation, process_message calls awaiting the AI response
    now,                   \* datetime.utcnow(), in minutes
    ret                    \* the outcome of the last orchestrator call that returned

vars == <<mattermost, max_queue_size, agents, tickets, escalation_queue, active_tickets,
          conversations, active_conversations, pending_ai, now, ret>>

\* None for a datetime
NoTime == -1

\* membership and removal for the lists that model dicts and lists
InSeq(s, x) == \E i \in DOMAIN s : s[i] = x

Without(s, x) == SelectSeq(s, LAMBDA y : y /= x)

\* dict[key] = value: a new key goes last, an existing key keeps its place
DictPut(s, x) == IF InSeq(s, x) THEN s ELSE Append(s, x)

\* list.insert(i, x) with a 0-based index i
InsertAt(s, i, x) == SubSeq(s, 1, i) \o <<x>> \o SubSeq(s, i + 1, Len(s))

(***************************************************************************)
(* EscalationManager.  The helpers take the manager's state as a record m  *)
(* with the fields agents, tickets, escalation_queue, active_tickets, and  *)
(* return the state they leave.                                            *)
(***************************************************************************)
Manager ==
    [agents |-> agents, tickets |-> tickets,
     escalation_queue |-> escalation_queue, active_tickets |-> active_tickets]

SetManager(m) ==
    /\ agents' = m.agents
    /\ tickets' = m.tickets
    /\ escalation_queue' = m.escalation_queue
    /\ active_tickets' = m.active_tickets

\* the filter of _find_available_agent: available, below capacity, speaks
\* the ticket's language
Eligible(m, t, a) ==
    /\ m.agents[a].status = "available"
    /\ m.agents[a].current_load < max_concurrent_chats(a)
    /\ m.tickets[t].language \in AgentLanguages(a)

\* the score of _find_available_agent
Score(m, t, a) ==
    (IF m.tickets[t].category \in AgentSpecialties(a) THEN 10 ELSE 0)
    + (max_concurrent_chats(a) - m.agents[a].current_load) * 2
    + satisfaction_score(a) * 5

\* EscalationManager._find_available_agent: the candidates are collected in
\* the order of self.agents and sorted by score, descending; the sort is
\* stable, so the first candidate with the highest score is returned
_find_available_agent(m, t) ==
    LET cand == {i \in DOMAIN AgentOrder : Eligible(m, t, AgentOrder[i])}
        best == {i \in cand :
                    \A k \in cand :
                        Score(m, t, AgentOrder[i]) >= Score(m, t, AgentOrder[k])}
    IN  IF cand = {} THEN NoAgent
        ELSE AgentOrder[CHOOSE i \in best : \A k \in best : i <= k]

\* EscalationManager._assign_ticket_to_agent.  _notify_agent_assignment
\* sends nothing: no agent of _load_agents has a mattermost_user_id
_assign_ticket_to_agent(m, t, a) ==
    [m EXCEPT
        !.tickets[t].assigned_agent_id = a,
        !.tickets[t].status = "assigned",
        !.agents[a].current_load = @ + 1,
        !.active_tickets = DictPut(@, t),
        !.escalation_queue = Without(@, t)]

\* the renumbering loop of _add_to_queue
RenumberQueue(tk, q) ==
    [t \in DOMAIN tk |->
        IF InSeq(q, t)
        THEN [tk[t] EXCEPT !.queue_position =
                 (CHOOSE i \in DOMAIN q : q[i] = t /\ \A k \in DOMAIN q : q[k] = t => k <= i)]
        ELSE tk[t]]

\* EscalationManager._add_to_queue
_add_to_queue(m, t) ==
    LET q0 == IF Len(m.escalation_queue) >= max_queue_size
              THEN Tail(m.escalation_queue)
              ELSE m.escalation_queue
        lower == {i \in DOMAIN q0 :
                     priority_order(m.tickets[t].priority)
                       < priority_order(m.tickets[q0[i]].priority)}
        insert_index == IF lower = {} THEN Len(q0)
                        ELSE (CHOOSE i \in lower : \A k \in lower : i <= k) - 1
        q1 == InsertAt(q0, insert_index, t)
    IN  [m EXCEPT !.escalation_queue = q1,
                  !.tickets = RenumberQueue(m.tickets, q1)]

\* the EscalationTicket constructor with the model's fields
NewTicket(conv, priority, reason, category, language, sla) ==
    [conversation_id |-> conv, priority |-> priority, reason |-> reason,
     category |-> category,
     language |-> language, assigned_agent_id |-> NoAgent,
     queue_position |-> 0, created_at |-> now,
     response_sla_minutes |-> sla, status |-> "pending"]

\* next(t for t in self.active_tickets.values() if t.conversation_id == id)
\* or 0 for None
TicketOfConversation(m, conv) ==
    LET hits == {i \in DOMAIN m.active_tickets :
                    m.tickets[m.active_tickets[i]].conversation_id = conv}
    IN  IF hits = {} THEN 0
        ELSE m.active_tickets[CHOOSE i \in hits : \A k \in hits : i <= k]

\* None for the result of get_escalation_status
NoStatus == [ticket_id |-> 0]

\* EscalationManager.get_escalation_status: the record of the first of
\* self.active_tickets of the conversation, without its wait times
get_escalation_status(m, conv) ==
    LET t == TicketOfConversation(m, conv)
    IN  IF t = 0 THEN NoStatus
        ELSE [ticket_id |-> t,
              status |-> m.tickets[t].status,
              priority |-> m.tickets[t].priority,
              queue_position |-> m.tickets[t].queue_position,
              assigned_agent |-> m.tickets[t].assigned_agent_id]

\* EscalationManager.request_agent; returns the state and the result.
\* _notify_escalation_team raises when self.mattermost is set (the adapter
\* has no send_message), and the handler's except clause returns False
request_agent(m, conv, language, reason, priority) ==
    LET t  == Len(m.tickets) + 1
        tk == NewTicket(conv, priority, reason,
                        CategoryOf[reason],
                        language, _get_response_sla(priority))
        m1 == [m EXCEPT !.tickets = Append(@, tk)]
        agent == IF priority \in {"high", "urgent"}
                 THEN _find_available_agent(m1, t) ELSE NoAgent
    IN  IF agent /= NoAgent
        THEN [m |-> _assign_ticket_to_agent(m1, t, agent), val |-> TRUE]
        ELSE [m |-> _add_to_queue(m1, t), val |-> ~mattermost]

\* the capacity check of assign_to_agent without its comparison
AtCapacity_Never(m, agent_id) == FALSE

\* the capacity check of assign_to_agent
AtCapacity(m, agent_id) ==
    m.agents[agent_id].current_load >= max_concurrent_chats(agent_id)

\* EscalationManager.assign_to_agent; the ticket built for a manual
\* assignment is kept only if the assignment goes through
assign_to_agent(m, conv, language, agent_id) ==
    LET found == TicketOfConversation(m, conv)
        t  == IF found /= 0 THEN found ELSE Len(m.tickets) + 1
        m1 == IF found /= 0 THEN m
              ELSE [m EXCEPT !.tickets =
                       Append(@, NewTicket(conv, "normal", "manual", "manual", language, 15))]
    IN  IF agent_id \notin AgentIds
        THEN [m |-> m, val |-> FALSE]
        ELSE IF m.agents[agent_id].status \notin {"available", "busy"}
        THEN [m |-> m, val |-> FALSE]
        ELSE IF AtCapacity(m, agent_id)
        THEN [m |-> m, val |-> FALSE]
        ELSE [m |-> _assign_ticket_to_agent(m1, t, agent_id), val |-> TRUE]

\* EscalationManager.handle_escalation_timeout; the exception of
\* _notify_escalation_timeout is caught after the state is updated
handle_escalation_timeout(m, conv) ==
    LET t == TicketOfConversation(m, conv)
    IN  IF t = 0 THEN m
        ELSE
          LET p  == BumpPriority(m.tickets[t].priority)
              m1 == [m EXCEPT !.tickets[t].priority = p,
                              !.tickets[t].response_sla_minutes = _get_response_sla(p)]
              agent == IF m1.tickets[t].assigned_agent_id = NoAgent
                       THEN _find_available_agent(m1, t) ELSE NoAgent
          IN  IF agent /= NoAgent
              THEN _assign_ticket_to_agent(m1, t, agent)
              ELSE m1

\* EscalationManager._reassign_agent_tickets
RECURSIVE RequeueTickets(_, _)
RequeueTickets(m, ts) ==
    IF ts = <<>> THEN m
    ELSE LET t  == Head(ts)
             m1 == [m EXCEPT !.tickets[t].assigned_agent_id = NoAgent,
                             !.tickets[t].status = "pending"]
         IN  RequeueTickets(_add_to_queue(m1, t), Tail(ts))

_reassign_agent_tickets(m, agent_id) ==
    LET agent_tickets ==
            SelectSeq(m.active_tickets,
                      LAMBDA t : m.tickets[t].assigned_agent_id = agent_id)
        m1 == RequeueTickets(m, agent_tickets)
    IN  [m1 EXCEPT !.agents[agent_id].current_load = 0]

\* EscalationManager.update_agent_status
update_agent_status(m, agent_id, status) ==
    IF agent_id \notin AgentIds
    THEN [m |-> m, val |-> FALSE]
    ELSE LET old_status == m.agents[agent_id].status
             m1 == [m EXCEPT !.agents[agent_id].status = status]
         IN  [m |-> IF status = "offline" /\ old_status /= "offline"
                    THEN _reassign_agent_tickets(m1, agent_id)
                    ELSE m1,
              val |-> TRUE]

\* _handle_sla_breach that also sends the ticket back to pending
_handle_sla_breach_Resets(m, t) ==
    [m EXCEPT !.tickets[t].priority = BumpPriority(@),
              !.tickets[t].status = "pending"]

\* EscalationManager._handle_sla_breach: the priority bump
_handle_sla_breach(m, t) ==
    [m EXCEPT !.tickets[t].priority = BumpPriority(@)]

\* the breach test of _monitor_sla_breaches; first_response_at is never set
SlaBreached(m, t) ==
    now - m.tickets[t].created_at > m.tickets[t].response_sla_minutes

\* the loop of _monitor_sla_breaches over
\* list(self.active_tickets.values()) + self.escalation_queue; when
\* self.mattermost is set, _notify_sla_breach raises after the first bump
\* and the except clause of the monitor ends the pass
RECURSIVE SlaLoop(_, _)
SlaLoop(m, ts) ==
    IF ts = <<>> THEN m
    ELSE IF SlaBreached(m, Head(ts))
         THEN IF mattermost
              THEN _handle_sla_breach(m, Head(ts))
              ELSE SlaLoop(_handle_sla_breach(m, Head(ts)), Tail(ts))
         ELSE SlaLoop(m, Tail(ts))

\* a matching pass that assigns nothing
MatchLoop_Skips(m, ts) == m

\* the loop of _process_escalation_queue over self.escalation_queue[:]
RECURSIVE MatchLoop(_, _)
MatchLoop(m, ts) ==
    IF ts = <<>> THEN m
    ELSE CHOOSE r \in
             {MatchLoop(IF agent /= NoAgent
                        THEN _assign_ticket_to_agent(m, Head(ts), agent)
                        ELSE m,
                        Tail(ts)) :
                 agent \in {_find_available_agent(m, Head(ts))}} : TRUE

(***************************************************************************)
(* ChatOrchestrator.                                                       *)
(***************************************************************************)
\* the result record of a call of the orchestrator: the operation, its
\* conversation, whether it raised, and what it returned; `again` marks a
\* complete_conversation that directly follows a successful
\* complete_conversation of the same conversation
Result(op, conv, raised, val) ==
    [op |-> op, conv |-> conv, raised |-> raised, val |-> val, again |-> FALSE]

\* urgency_level is the level of the ConversationContext that
\* load_user_context creates for the conversation of a user it has no
\* cached profile of
NewConversation(language) ==
    [state |-> "active", language |-> language, messages |-> <<>>,
     updated_at |-> now, escalated_at |-> NoTime, assigned_agent_id |-> NoAgent,
     urgency_level |-> "normal"]

Message(type, content, reason) ==
    [type |-> type, content |-> content, reason |-> reason]

\* an update_context that takes the level of the last user message
update_context_Overwrites(conv, message) ==
    IF message.type = "user"
    THEN [conv EXCEPT !.urgency_level = UrgencyOf[message.content]]
    ELSE conv

\* ContextManager.update_context on the context of conversation record
\* conv: the level of a user message replaces the level of the context
\* when it is greater as a string
update_context(conv, message) ==
    IF /\ message.type = "user"
       /\ UrgencyGreater[UrgencyOf[message.content], conv.urgency_level]
    THEN [conv EXCEPT !.urgency_level = UrgencyOf[message.content]]
    ELSE conv

\* the contents of the user messages among the last n messages of a log
RecentUserContents(messages, n) ==
    LET from == IF Len(messages) > n THEN Len(messages) - n + 1 ELSE 1
    IN  {messages[i].content :
            i \in {k \in from..Len(messages) : messages[k].type = "user"}}

\* ChatOrchestrator._check_escalation_triggers
_check_escalation_triggers(messages, message) ==
    \/ message \in KeywordMessages
    \/ Len(messages) > 20
    \/ /\ Len(messages) >= 6
       /\ Cardinality(RecentUserContents(messages, 6)) <= 2

\* ChatOrchestrator._escalate_conversation on conversation c of cs, with
\* the active set ac; sets the next state and leaves the result to the caller
_escalate_conversation(cs, ac, c, reason, priority) ==
    \E r \in {request_agent(Manager, c, cs[c].language, reason, priority)} :
    LET txt == IF r.val THEN "connecting" ELSE "in_queue"
    IN  /\ conversations' =
              [cs EXCEPT ![c].state = "escalated",
                         ![c].escalated_at = now,
                         ![c].messages = Append(@, Message("escalation", txt, reason))]
        /\ active_conversations' = DictPut(ac, c)
        /\ SetManager(r.m)

\* ChatOrchestrator.process_message up to its return or to the await of
\* ai_engine.generate_response, on conversation c of cs with active set ac
\* and suspended calls pa.
\* Every exception is caught by the handler, which returns a system message
\* with a fixed apology
ProcessMessageFrom(cs, ac, pa, c, message) ==
    IF ~InSeq(ac, c) \/ cs[c].state \notin {"active", "waiting_for_user"}
    THEN /\ conversations' = cs
         /\ active_conversations' = ac
         /\ pending_ai' = pa
         /\ ret' = Result("process_message", c, FALSE, "system_apology")
         /\ UNCHANGED <<agents, tickets, escalation_queue, active_tickets>>
    ELSE LET cs1 == [cs EXCEPT ![c] =
                        update_context([@ EXCEPT !.messages =
                                           Append(@, Message("user", message, ""))],
                                       Message("user", message, ""))]
         IN  IF _check_escalation_triggers(cs1[c].messages, message)
             THEN /\ _escalate_conversation(cs1, ac, c, "ai", "normal")
                  /\ pending_ai' = pa
                  /\ ret' = Result("process_message", c, FALSE, "escalation")
             ELSE /\ conversations' = cs1
                  /\ active_conversations' = ac
                  /\ pending_ai' = [pa EXCEPT ![c] = @ + 1]
                  /\ UNCHANGED <<agents, tickets, escalation_queue, active_tickets, ret>>

\* ChatOrchestrator.start_conversation
StartConversation(language, message) ==
    /\ LET c == Len(conversations) + 1
       IN  ProcessMessageFrom(Append(conversations, NewConversation(language)),
                              Append(active_conversations, c),
                              Append(pending_ai, 0), c, message)
    /\ UNCHANGED <<mattermost, max_queue_size, now>>

\* ChatOrchestrator.process_message, first part
ProcessMessage(c, message) ==
    /\ ProcessMessageFrom(conversations, active_conversations, pending_ai, c, message)
    /\ UNCHANGED <<mattermost, max_queue_size, now>>

\* a process_message that files the reply ahead of the messages it answers
ProcessMessageResume_Prepends(c) ==
    /\ pending_ai[c] > 0
    /\ pending_ai' = [pending_ai EXCEPT ![c] = @ - 1]
    /\ conversations' =
          [conversations EXCEPT
              ![c] = update_context(
                        [@ EXCEPT !.messages = <<Message("assistant", "ai_response", "")>> \o @,
                                  !.updated_at = now,
                                  !.state = "waiting_for_user"],
                        Message("assistant", "ai_response", ""))]
    /\ active_conversations' = DictPut(active_conversations, c)
    /\ ret' = Result("process_message", c, FALSE, "assistant")
    /\ UNCHANGED <<mattermost, max_queue_size, agents, tickets, escalation_queue, active_tickets, now>>

\* ChatOrchestrator.process_message after the AI response: lines 234-276
ProcessMessageResume(c) ==
    /\ pending_ai[c] > 0
    /\ pending_ai' = [pending_ai EXCEPT ![c] = @ - 1]
    /\ conversations' =
          [conversations EXCEPT
              ![c] = update_context(
                        [@ EXCEPT !.messages = Append(@, Message("assistant", "ai_response", "")),
                                  !.updated_at = now,
                                  !.state = "waiting_for_user"],
                        Message("assistant", "ai_response", ""))]
    /\ active_conversations' = DictPut(active_conversations, c)
    /\ ret' = Result("process_message", c, FALSE, "assistant")
    /\ UNCHANGED <<mattermost, max_queue_size, agents, tickets, escalation_queue, active_tickets, now>>

\* ChatOrchestrator.escalate_conversation
EscalateConversation(c, reason, priority) ==
    /\ IF ~InSeq(active_conversations, c)
       THEN /\ ret' = Result("escalate_conversation", c, FALSE, "false")
            /\ UNCHANGED <<agents, tickets, escalation_queue, active_tickets,
                           conversations, active_conversations>>
       ELSE /\ _escalate_conversation(conversations, active_conversations, c, reason, priority)
            /\ ret' = Result("escalate_conversation", c, FALSE, "true")
    /\ UNCHANGED <<mattermost, max_queue_size, pending_ai, now>>

\* ChatOrchestrator.transfer_to_agent; the result of assign_to_agent is
\* not looked at
TransferToAgent(c, agent_id) ==
    /\ IF ~InSeq(active_conversations, c)
       THEN /\ ret' = Result("transfer_to_agent", c, FALSE, "false")
            /\ UNCHANGED <<agents, tickets, escalation_queue, active_tickets,
                           conversations, active_conversations>>
       ELSE \E r \in {assign_to_agent(Manager, c, conversations[c].language, agent_id)} :
                /\ conversations' =
                      [conversations EXCEPT ![c].state = "escalated",
                                            ![c].assigned_agent_id = agent_id,
                                            ![c].escalated_at = now]
                /\ active_conversations' = DictPut(active_conversations, c)
                /\ SetManager(r.m)
                /\ ret' = Result("transfer_to_agent", c, FALSE, "true")
    /\ UNCHANGED <<mattermost, max_queue_size, pending_ai, now>>

\* ChatOrchestrator.complete_conversation: the conversation is deleted from
\* the active set and then put back by _save_conversation
CompleteConversation(c) ==
    /\ IF ~InSeq(active_conversations, c)
       THEN /\ ret' = [Result("complete_conversation", c, FALSE, "false")
                         EXCEPT !.again = (ret.op = "complete_conversation"
                                           /\ ret.conv = c /\ ret.val = "true")]
            /\ UNCHANGED <<conversations, active_conversations>>
       ELSE /\ conversations' = [conversations EXCEPT ![c].state = "completed"]
            /\ active_conversations' = Append(Without(active_conversations, c), c)
            /\ ret' = [Result("complete_conversation", c, FALSE, "true")
                         EXCEPT !.again = (ret.op = "complete_conversation"
                                           /\ ret.conv = c /\ ret.val = "true")]
    /\ UNCHANGED <<mattermost, max_queue_size, agents, tickets, escalation_queue, active_tickets,
                   pending_ai, now>>

\* EscalationManager.update_agent_status, called by the presence feed
UpdateAgentStatus(agent_id, status) ==
    /\ \E r \in {update_agent_status(Manager, agent_id, status)} : SetManager(r.m)
    /\ UNCHANGED <<mattermost, max_queue_size, conversations, active_conversations, pending_ai, now, ret>>

\* one pass of EscalationManager._process_escalation_queue
ProcessEscalationQueue ==
    /\ escalation_queue /= <<>>
    /\ \E m \in {MatchLoop(Manager, escalation_queue)} : SetManager(m)
    /\ UNCHANGED <<mattermost, max_queue_size, conversations, active_conversations, pending_ai, now, ret>>

\* one pass of EscalationManager._monitor_sla_breaches
MonitorSlaBreaches ==
    /\ \E m \in {SlaLoop(Manager, active_tickets \o escalation_queue)} : SetManager(m)
    /\ UNCHANGED <<mattermost, max_queue_size, conversations, active_conversations, pending_ai, now, ret>>

\* ChatOrchestrator.escalation_timeout: timedelta(minutes=15)
escalation_timeout == 15

\* the loop of _monitor_escalation_timeouts over
\* self.active_conversations.values()
RECURSIVE TimeoutLoop(_, _)
TimeoutLoop(m, cs) ==
    IF cs = <<>> THEN m
    ELSE LET c == conversations[Head(cs)]
         IN  TimeoutLoop(IF /\ c.state = "escalated"
                            /\ c.escalated_at /= NoTime
                            /\ now - c.escalated_at > escalation_timeout
                         THEN handle_escalation_timeout(m, Head(cs))
                         ELSE m,
                         Tail(cs))

\* one pass of ChatOrchestrator._monitor_escalation_timeouts
MonitorEscalationTimeouts ==
    /\ \E m \in {TimeoutLoop(Manager, active_conversations)} : SetManager(m)
    /\ UNCHANGED <<mattermost, max_queue_size, conversations, active_conversations, pending_ai, now, ret>>

\* ChatOrchestrator.conversation_timeout: timedelta(hours=1)
conversation_timeout == 60

\* one pass of ChatOrchestrator._cleanup_abandoned_conversations: every
\* conversation of the active set that was not updated for longer than
\* conversation_timeout is marked abandoned, saved and deleted from the
\* active set
Abandoned(c) ==
    /\ InSeq(active_conversations, c)
    /\ now - conversations[c].updated_at > conversation_timeout

CleanupAbandonedConversations ==
    /\ conversations' =
          [c \in DOMAIN conversations |->
              IF Abandoned(c)
              THEN [conversations[c] EXCEPT !.state = "abandoned"]
              ELSE conversations[c]]
    /\ active_conversations' =
          SelectSeq(active_conversations, LAMBDA c : ~Abandoned(c))
    /\ UNCHANGED <<mattermost, max_queue_size, agents, tickets, escalation_queue, active_tickets,
                   pending_ai, now, ret>>

\* the passage of time
Tick ==
    /\ now < MaxTicks * TickMinutes
    /\ now' = now + TickMinutes
    /\ UNCHANGED <<mattermost, max_queue_size, agents, tickets, escalation_queue, active_tickets,
                   conversations, active_conversations, pending_ai, ret>>

\* the passage of time on the coarser clock
TickL ==
    /\ now < MaxTicksL * TickMinutesL
    /\ now' = now + TickMinutesL
    /\ UNCHANGED <<mattermost, max_queue_size, agents, tickets, escalation_queue, active_tickets,
                   conversations, active_conversations, pending_ai, ret>>

(***************************************************************************)
(* The specification.                                                      *)
(***************************************************************************)
\* the state after EscalationManager.initialize and
\* ChatOrchestrator.initialize: the two agents of _load_agents, available
\* and idle, no ticket and no conversation
Boot(size) ==
    /\ mattermost \in BOOLEAN
    /\ max_queue_size = size
    /\ agents = [a \in AgentIds |-> [status |-> "available", current_load |-> 0]]
    /\ tickets = <<>>
    /\ escalation_queue = <<>>
    /\ active_tickets = <<>>
    /\ conversations = <<>>
    /\ active_conversations = <<>>
    /\ pending_ai = <<>>
    /\ now = 0
    /\ ret = Result("none", 0, FALSE, "none")

Init == Boot(MaxQueue)

\* the same construction with room for three queued tickets
InitI == Boot(MaxQueueI)

\* the inputs of the calls
Languages == {"en", "hi"}

Messages == {"human", "complaint"}

Reasons == {"doctor"}

PriorityInputs == {"normal", "urgent"}

StatusInputs == {"available", "offline"}

\* the targets of a manual assignment: a known agent and an unknown one
AgentInputs == {"agent_002", "agent_404"}

\* the next state stays within mc conversations, mt tickets, ml messages
\* in a log (counting the replies of the suspended calls) and MaxInflight
\* suspended calls of a conversation
Within(mc, mt, ml) ==
    /\ Len(conversations') <= mc
    /\ Len(tickets') <= mt
    /\ \A c \in DOMAIN conversations' :
          /\ pending_ai'[c] <= MaxInflight
          /\ Len(conversations'[c].messages) + pending_ai'[c] <= ml

Next ==
    \/ \E l \in Languages, msg \in Messages :
          StartConversation(l, msg) /\ Within(MaxConvs, MaxTickets, MaxLog)
    \/ \E c \in 1..(Len(conversations) + 1), msg \in Messages :
          ProcessMessage(c, msg) /\ Within(MaxConvs, MaxTickets, MaxLog)
    \/ \E c \in DOMAIN conversations : ProcessMessageResume(c)
    \/ \E c \in DOMAIN conversations, r \in Reasons, p \in PriorityInputs :
          EscalateConversation(c, r, p) /\ Within(MaxConvs, MaxTickets, MaxLog)
    \/ \E c \in DOMAIN conversations, a \in AgentInputs :
          TransferToAgent(c, a) /\ Within(MaxConvs, MaxTickets, MaxLog)
    \/ \E c \in DOMAIN conversations : CompleteConversation(c)
    \/ \E a \in AgentIds, st \in StatusInputs : UpdateAgentStatus(a, st)
    \/ ProcessEscalationQueue

Spec == Init /\ [][Next]_vars

\* the same system under the clock, with the three monitors
NextT ==
    \/ \E l \in Languages, msg \in Messages :
          StartConversation(l, msg) /\ Within(MaxConvs, MaxTicketsT, MaxLog)
    \/ \E c \in 1..(Len(conversations) + 1), msg \in Messages :
          ProcessMessage(c, msg) /\ Within(MaxConvs, MaxTicketsT, MaxLog)
    \/ \E c \in DOMAIN conversations : ProcessMessageResume(c)
    \/ \E c \in DOMAIN conversations, r \in Reasons, p \in PriorityInputs :
          EscalateConversation(c, r, p) /\ Within(MaxConvs, MaxTicketsT, MaxLog)
    \/ \E c \in DOMAIN conversations, a \in AgentInputs :
          TransferToAgent(c, a) /\ Within(MaxConvs, MaxTicketsT, MaxLog)
    \/ \E c \in DOMAIN conversations : CompleteConversation(c)
    \/ \E a \in AgentIds, st \in StatusInputs : UpdateAgentStatus(a, st)
    \/ ProcessEscalationQueue
    \/ MonitorSlaBreaches
    \/ MonitorEscalationTimeouts
    \/ Tick

SpecT == Init /\ [][NextT]_vars

\* the message logs: the conversation handlers and the two sweeps of the
\* orchestrator under the coarser clock, bounded by the number of messages
\* (every new conversation and every escalation adds a message)
RECURSIVE TotalMsgs(_, _)
TotalMsgs(cs, pa) ==
    IF cs = <<>> THEN 0
    ELSE Len(Head(cs).messages) + Head(pa) + TotalMsgs(Tail(cs), Tail(pa))

WithinL == TotalMsgs(conversations', pending_ai') <= MaxMsgsL

\* the language _detect_language finds in the messages of this
\* specification
LanguagesL == {"en"}

\* the priorities of the explicit escalations of this specification: one
\* that is queued and one that is matched at once
PriorityInputsL == {"normal", "high"}

NextL ==
    \/ \E l \in LanguagesL, msg \in Messages : StartConversation(l, msg) /\ WithinL
    \/ \E c \in 1..(Len(conversations) + 1), msg \in Messages :
          ProcessMessage(c, msg) /\ WithinL
    \/ \E c \in DOMAIN conversations : ProcessMessageResume(c)
    \/ \E c \in DOMAIN conversations, r \in Reasons, p \in PriorityInputsL :
          EscalateConversation(c, r, p) /\ WithinL
    \/ \E c \in DOMAIN conversations : CompleteConversation(c)
    \/ CleanupAbandonedConversations
    \/ MonitorEscalationTimeouts
    \/ TickL

SpecL == Init /\ [][NextL]_vars

(***************************************************************************)
(* The escalation manager on its own: its public methods are called with   *)
(* conversation snapshots, as ChatOrchestrator calls them.                 *)
(***************************************************************************)
\* the conversation snapshots passed to the manager: id and language
ConversationInputs == {[id |-> 1, language |-> "en"], [id |-> 2, language |-> "hi"]}

\* EscalationManager.request_agent
RequestAgent(conv, reason, priority) ==
    /\ \E r \in {request_agent(Manager, conv.id, conv.language, reason, priority)} :
          SetManager(r.m)
    /\ UNCHANGED <<mattermost, max_queue_size, conversations, active_conversations, pending_ai, now, ret>>

\* EscalationManager.assign_to_agent
AssignToAgent(conv, agent_id) ==
    /\ \E r \in {assign_to_agent(Manager, conv.id, conv.language, agent_id)} :
          SetManager(r.m)
    /\ UNCHANGED <<mattermost, max_queue_size, conversations, active_conversations, pending_ai, now, ret>>

\* EscalationManager.handle_escalation_timeout.  _monitor_escalation_timeouts
\* calls it for a conversation escalated more than escalation_timeout ago;
\* every ticket of a conversation is created by an escalation of it, so all
\* the tickets of that conversation are older than the timeout then
HandleEscalationTimeout(conv) ==
    /\ \A t \in DOMAIN tickets :
          tickets[t].conversation_id = conv.id
             => now - tickets[t].created_at > escalation_timeout
    /\ \E m \in {handle_escalation_timeout(Manager, conv.id)} : SetManager(m)
    /\ UNCHANGED <<mattermost, max_queue_size, conversations, active_conversations, pending_ai, now, ret>>

\* SpecM serves one conversation, in a language both agents speak
ConversationInputsM == {[id |-> 1, language |-> "en"]}

NextM ==
    \/ \E conv \in ConversationInputsM, r \in Reasons, p \in PriorityInputs :
          RequestAgent(conv, r, p) /\ Len(tickets') <= MaxTicketsM
    \/ \E conv \in ConversationInputsM, a \in AgentInputs :
          AssignToAgent(conv, a) /\ Len(tickets') <= MaxTicketsM
    \/ \E conv \in ConversationInputsM : HandleEscalationTimeout(conv)
    \/ \E a \in AgentIds, st \in StatusInputs : UpdateAgentStatus(a, st)
    \/ ProcessEscalationQueue
    \/ MonitorSlaBreaches
    \/ Tick

SpecM == Init /\ [][NextM]_vars

\* the same operations with room for a queue of several tickets
NextQ ==
    \/ \E conv \in ConversationInputs, r \in Reasons, p \in PriorityInputs :
          RequestAgent(conv, r, p) /\ Len(tickets') <= MaxTicketsQ
    \/ \E conv \in ConversationInputs, a \in AgentInputs :
          AssignToAgent(conv, a) /\ Len(tickets') <= MaxTicketsQ
    \/ \E conv \in ConversationInputs : HandleEscalationTimeout(conv)
    \/ \E a \in AgentIds, st \in StatusInputs : UpdateAgentStatus(a, st)
    \/ ProcessEscalationQueue
    \/ MonitorSlaBreaches
    \/ Tick

SpecQ == Init /\ [][NextQ]_vars

\* the escalation manager while the clock stands still: the SLA monitor and
\* the timeout path find nothing to do then
NextD ==
    \/ \E conv \in ConversationInputs, r \in Reasons, p \in PriorityInputs :
          RequestAgent(conv, r, p) /\ Len(tickets') <= MaxTicketsD
    \/ \E conv \in ConversationInputs, a \in AgentInputs :
          AssignToAgent(conv, a) /\ Len(tickets') <= MaxTicketsD
    \/ \E a \in AgentIds, st \in StatusInputs : UpdateAgentStatus(a, st)
    \/ ProcessEscalationQueue

SpecD == Init /\ [][NextD]_vars

\* a long conversation: one conversation that goes on with messages no
\* keyword matches
MessagesP == {"refill", "hours", "hello"}

NextP ==
    \/ \E l \in LanguagesL, msg \in MessagesP :
          StartConversation(l, msg) /\ Within(MaxConvs, MaxTickets, MaxLogP)
    \/ \E c \in DOMAIN conversations, msg \in MessagesP :
          ProcessMessage(c, msg) /\ Within(MaxConvs, MaxTickets, MaxLogP)
    \/ \E c \in DOMAIN conversations : ProcessMessageResume(c)

SpecP == Init /\ [][NextP]_vars

(***************************************************************************)
(* The specification of the urgency level: conversations that receive a    *)
(* message with an urgent term, one with a concern term, and one with      *)
(* neither.                                                                *)
(***************************************************************************)
MessagesU == {"chest", "worried", "hello"}

WithinU ==
    /\ Len(conversations') <= MaxConvs
    /\ TotalMsgs(conversations', pending_ai') <= MaxMsgsU
    /\ \A c \in DOMAIN conversations' : pending_ai'[c] <= MaxInflight

NextU ==
    \/ \E l \in LanguagesL, msg \in MessagesU : StartConversation(l, msg) /\ WithinU
    \/ \E c \in DOMAIN conversations, msg \in MessagesU :
          ProcessMessage(c, msg) /\ WithinU
    \/ \E c \in DOMAIN conversations : ProcessMessageResume(c)

SpecU == Init /\ [][NextU]_vars

\* the matching pass under fair scheduling: _process_escalation_queue is a
\* task that loops for ever with sleeps of 15 to 60 seconds, so a pass that
\* stays possible is taken
NextF ==
    \/ \E conv \in ConversationInputs, r \in Reasons, p \in PriorityInputs :
          RequestAgent(conv, r, p) /\ Len(tickets') <= MaxTicketsF
    \/ \E a \in AgentIds, st \in StatusInputs : UpdateAgentStatus(a, st)
    \/ ProcessEscalationQueue

SpecF == Init /\ [][NextF]_vars /\ WF_vars(ProcessEscalationQueue)

\* the insertions into a queue that the SLA monitor has re-prioritised:
\* one conversation in a language no agent speaks, so that every request is
\* queued, and the one agent that manual assignments go to
ConversationInputsI == {[id |-> 2, language |-> "hi"]}

AgentInputsI == {"agent_002"}

NextI ==
    \/ \E conv \in ConversationInputsI, r \in Reasons, p \in PriorityInputs :
          RequestAgent(conv, r, p) /\ Len(tickets') <= MaxTicketsI
    \/ \E conv \in ConversationInputsI, a \in AgentInputsI :
          AssignToAgent(conv, a) /\ Len(tickets') <= MaxTicketsI
    \/ \E a \in AgentInputsI, st \in StatusInputs : UpdateAgentStatus(a, st)
    \/ MonitorSlaBreaches
    \/ Tick

SpecI == InitI /\ [][NextI]_vars

(***************************************************************************)
(* Properties.                                                             *)
(***************************************************************************)
\* C1: after any interleaving of request_agent, assign_to_agent, the
\* matching pass, the escalation-timeout path and update_agent_status, no
\* agent's current_load exceeds the agent's max_concurrent_chats
C1_LoadWithinCapacity ==
    \A a \in AgentIds : agents[a].current_load <= max_concurrent_chats(a)

\* an agent is loaded up to its capacity and holds a ticket
C1_Witness ==
    \E a \in AgentIds :
        /\ agents[a].current_load = max_concurrent_chats(a)
        /\ \E t \in DOMAIN tickets : tickets[t].assigned_agent_id = a

\* the order pending -> assigned -> in_progress -> resolved of the ticket
\* statuses
StatusRank(st) ==
    CASE st = "pending"     -> 0
      [] st = "assigned"    -> 1
      [] st = "in_progress" -> 2
      [] OTHER              -> 3

\* C8 as stated: a ticket's status only moves forward along pending ->
\* assigned -> in_progress -> resolved; no step moves a ticket back to an
\* earlier status
C8_StatusOnlyForward ==
    [][\A t \in DOMAIN tickets :
          StatusRank(tickets'[t].status) >= StatusRank(tickets[t].status)]_vars

\* C8 amended: a ticket's status moves back only from assigned to pending,
\* and only in the step in which update_agent_status takes the ticket's
\* agent from a non-offline status to offline; that step clears the
\* ticket's agent and keeps its priority, so no priority bump moves a
\* ticket back
C8_BackOnlyOnAgentDeparture ==
    [][\A t \in DOMAIN tickets :
          StatusRank(tickets'[t].status) < StatusRank(tickets[t].status)
             => /\ tickets[t].status = "assigned"
                /\ tickets'[t].status = "pending"
                /\ tickets[t].assigned_agent_id \in AgentIds
                /\ agents[tickets[t].assigned_agent_id].status /= "offline"
                /\ agents'[tickets[t].assigned_agent_id].status = "offline"
                /\ tickets'[t].assigned_agent_id = NoAgent
                /\ tickets'[t].priority = tickets[t].priority]_vars

\* a ticket that was assigned is pending again: only an assignment puts a
\* ticket into active_tickets
C8_Witness ==
    \E t \in DOMAIN tickets :
        /\ tickets[t].status = "pending"
        /\ InSeq(active_tickets, t)
        /\ InSeq(escalation_queue, t)

\* C7: a ticket of priority normal that is tracked by the manager and is
\* past its 15-minute response deadline has, after one pass of the SLA
\* monitor, priority high and a response SLA of 10 minutes
C7_SlaPassBumpsNormal ==
    [][MonitorSlaBreaches =>
          \A t \in DOMAIN tickets :
              (/\ InSeq(active_tickets, t) \/ InSeq(escalation_queue, t)
               /\ tickets[t].priority = "normal"
               /\ now - tickets[t].created_at > _get_response_sla("normal"))
              => /\ tickets'[t].priority = "high"
                 /\ tickets'[t].response_sla_minutes = _get_response_sla("high")]_vars

\* C3: the tickets in the escalation queue carry the queue positions 1..N,
\* the ticket at the n-th place of the queue holding position n, after an
\* insert and after a removal by assignment
C3_QueuePositionsDense ==
    \A i \in DOMAIN escalation_queue :
        tickets[escalation_queue[i]].queue_position = i

\* C4: no ticket in the escalation queue stands ahead of a queued ticket
\* of strictly higher priority
C4_QueueOrderedByPriority ==
    \A i, j \in DOMAIN escalation_queue :
        i < j => priority_order(tickets[escalation_queue[i]].priority)
                    <= priority_order(tickets[escalation_queue[j]].priority)

\* C5: when update_agent_status takes an agent from a non-offline status
\* to offline, every ticket that was assigned to the agent is pending
\* afterwards, has no agent, is in the escalation queue with its priority
\* unchanged, and the agent's current_load is 0
C5_DepartureRequeuesAll ==
    [][\A a \in AgentIds :
          (agents[a].status /= "offline" /\ agents'[a].status = "offline")
             => /\ agents'[a].current_load = 0
                /\ \A t \in DOMAIN tickets :
                      tickets[t].assigned_agent_id = a
                         => /\ tickets'[t].status = "pending"
                            /\ tickets'[t].assigned_agent_id = NoAgent
                            /\ InSeq(escalation_queue', t)
                            /\ tickets'[t].priority = tickets[t].priority]_vars

\* the tickets of conversation c that the manager tracks (in the queue or
\* in active_tickets) with status pending, assigned or in_progress
OutstandingTickets(c) ==
    {t \in DOMAIN tickets :
        /\ tickets[t].conversation_id = c
        /\ tickets[t].status \in {"pending", "assigned", "in_progress"}
        /\ InSeq(escalation_queue, t) \/ InSeq(active_tickets, t)}

\* C2: each conversation has at most one ticket whose status is pending,
\* assigned or in_progress, counting the tickets in the escalation queue
\* and in active_tickets
C2_OneOutstandingTicket ==
    \A c \in DOMAIN conversations : Cardinality(OutstandingTickets(c)) <= 1

\* C6: a complete_conversation that directly follows a complete_conversation
\* of the same conversation that returned true returns false
C6_SecondCompleteReturnsFalse ==
    (ret.op = "complete_conversation" /\ ret.again) => ret.val = "false"

\* C9: process_message on a conversation of the active set whose state is
\* neither active nor waiting_for_user ends in an error that reaches the
\* caller
C9_InvalidStateRaises ==
    [][\A c \in DOMAIN conversations, msg \in Messages :
          (/\ InSeq(active_conversations, c)
           /\ conversations[c].state \notin {"active", "waiting_for_user"}
           /\ ProcessMessage(c, msg))
          => ret'.raised]_vars

\* C10: when a conversation in state active or waiting_for_user receives
\* the user message "I want to speak to a human", the step that appends
\* the message leaves the conversation escalated, with an escalation
\* message whose reason is not the rule-independent "AI triggered
\* escalation", and with a ticket of priority normal that is queued or
\* assigned
C10_SpeakToHumanEscalates ==
    [][\A c \in DOMAIN conversations' :
          LET old == IF c \in DOMAIN conversations
                     THEN conversations[c].messages ELSE <<>>
              new == conversations'[c].messages
          IN  (/\ c \in DOMAIN conversations
                     => conversations[c].state \in {"active", "waiting_for_user"}
               /\ Len(new) > Len(old)
               /\ new[Len(old) + 1] = Message("user", "human", ""))
              => /\ conversations'[c].state = "escalated"
                 /\ new[Len(new)].type = "escalation"
                 /\ new[Len(new)].reason /= "ai"
                 /\ \E t \in DOMAIN tickets' \ DOMAIN tickets :
                       /\ tickets'[t].conversation_id = c
                       /\ tickets'[t].priority = "normal"
                       /\ \/ InSeq(escalation_queue', t)
                          \/ tickets'[t].status = "assigned"]_vars

\* C11: request_agent returns true exactly when the call assigned the
\* ticket to an agent, and false when the ticket was only queued.  The
\* caller, _escalate_conversation, turns true into the "connecting" message
\* and false into the "in queue" message, so in every step that creates a
\* ticket and appends an escalation message, the message is "connecting"
\* exactly when the new ticket has an agent
C11_ReturnsTrueIffAssigned ==
    [][\A c \in DOMAIN conversations :
          \A t \in DOMAIN tickets' \ DOMAIN tickets :
              LET new == conversations'[c].messages
              IN  (/\ tickets'[t].conversation_id = c
                   /\ Len(new) > Len(conversations[c].messages)
                   /\ new[Len(new)].type = "escalation")
                  => (new[Len(new)].content = "connecting"
                        <=> tickets'[t].assigned_agent_id /= NoAgent)]_vars

\* C17: once a conversation is completed or abandoned its state never
\* changes again
C17_TerminalStatesFinal ==
    [][\A c \in DOMAIN conversations :
          conversations[c].state \in {"completed", "abandoned"}
             => conversations'[c].state = conversations[c].state]_vars

\* C18: in one pass of the SLA monitor every tracked ticket past its
\* response SLA has its priority raised by exactly one level (urgent stays
\* urgent), a ticket re-queued after its agent went offline included
C18_SlaPassBumpsOneLevel ==
    [][MonitorSlaBreaches =>
          \A t \in DOMAIN tickets :
              (/\ InSeq(active_tickets, t) \/ InSeq(escalation_queue, t)
               /\ SlaBreached(Manager, t))
              => tickets'[t].priority = BumpPriority(tickets[t].priority)]_vars

\* C19: for every conversation escalated for longer than the escalation
\* timeout whose ticket is still unassigned in the queue, one pass of the
\* escalation-timeout sweep raises the ticket's priority by one level.
\* The pass is evaluated in every reachable state (a pass that finds no
\* ticket changes nothing, so the step itself is a stuttering step)
C19_TimeoutSweepBumpsQueued ==
    \A c \in DOMAIN conversations : \A t \in DOMAIN tickets :
        (/\ InSeq(active_conversations, c)
         /\ conversations[c].state = "escalated"
         /\ conversations[c].escalated_at /= NoTime
         /\ now - conversations[c].escalated_at > escalation_timeout
         /\ tickets[t].conversation_id = c
         /\ tickets[t].assigned_agent_id = NoAgent
         /\ InSeq(escalation_queue, t))
        => TimeoutLoop(Manager, active_conversations).tickets[t].priority
              = BumpPriority(tickets[t].priority)

\* C20: when a ticket is added to a full queue, the ticket dropped to make
\* room is the oldest ticket of the lowest priority in the queue: a ticket
\* that leaves a full queue without being assigned has no queued ticket of
\* strictly lower priority, and none of its own priority that is older
C20_FullQueueDropsOldestLowest ==
    [][\A t \in DOMAIN tickets :
          (/\ Len(escalation_queue) >= max_queue_size
           /\ InSeq(escalation_queue, t)
           /\ ~InSeq(escalation_queue', t)
           /\ tickets'[t].assigned_agent_id = NoAgent)
          => \A u \in DOMAIN tickets :
                 InSeq(escalation_queue, u) /\ u /= t
                 => /\ priority_order(tickets[u].priority)
                          <= priority_order(tickets[t].priority)
                    /\ (tickets[u].priority = tickets[t].priority => u > t)]_vars

\* C14: for every queued ticket the matcher returns no agent exactly when
\* no agent is eligible, and otherwise an eligible agent that no other
\* eligible agent beats: none has a higher score, none of equal score has a
\* lower current_load, and none of equal score and load is registered
\* earlier
C14_MatcherTieBreak ==
    \A t \in DOMAIN tickets :
        InSeq(escalation_queue, t) =>
            LET a == _find_available_agent(Manager, t)
                elig == {i \in DOMAIN AgentOrder : Eligible(Manager, t, AgentOrder[i])}
            IN  /\ (a = NoAgent) <=> (elig = {})
                /\ a /= NoAgent =>
                      \E i \in elig :
                          /\ AgentOrder[i] = a
                          /\ \A k \in elig :
                                LET b == AgentOrder[k]
                                IN  \/ Score(Manager, t, a) > Score(Manager, t, b)
                                    \/ /\ Score(Manager, t, a) = Score(Manager, t, b)
                                       /\ agents[a].current_load < agents[b].current_load
                                    \/ /\ Score(Manager, t, a) = Score(Manager, t, b)
                                       /\ agents[a].current_load = agents[b].current_load
                                       /\ i <= k

\* C13: the message log of a conversation is append-only: in every step of
\* process_message, of an escalation, of a completion and of the two
\* sweeps, the log before the step is a prefix of the log after it
C13_LogAppendOnly ==
    [][\A c \in DOMAIN conversations :
          /\ c \in DOMAIN conversations'
          /\ Len(conversations'[c].messages) >= Len(conversations[c].messages)
          /\ SubSeq(conversations'[c].messages, 1, Len(conversations[c].messages))
                = conversations[c].messages]_vars

\* a conversation whose log took a user message, the assistant's reply and
\* an escalation message, and that the abandonment sweep has closed
C13_Witness ==
    \E c \in DOMAIN conversations :
        /\ conversations[c].state = "abandoned"
        /\ Len(conversations[c].messages) >= 3
        /\ \E i, j, k \in DOMAIN conversations[c].messages :
              /\ i < j /\ j < k
              /\ conversations[c].messages[i].type = "user"
              /\ conversations[c].messages[j].type = "assistant"
              /\ conversations[c].messages[k].type = "escalation"

\* C15: with process_message calls in flight for a conversation, once the
\* conversation is escalated no step sets its state back to
\* waiting_for_user or active, and once its log holds an escalation
\* message no step appends an assistant message
C15_EscalatedNotSetBack ==
    [][\A c \in DOMAIN conversations :
          LET old == conversations[c].messages
              new == conversations'[c].messages
          IN  /\ conversations[c].state = "escalated"
                   => conversations'[c].state \notin {"waiting_for_user", "active"}
              /\ (\E i \in DOMAIN old : old[i].type = "escalation")
                   => \A k \in (Len(old) + 1)..Len(new) :
                          new[k].type /= "assistant"]_vars

\* C16: the messages of a conversation are processed one at a time in
\* arrival order: every user message in the log but the last is directly
\* followed by its reply, an assistant or an escalation message
C16_ReplyBeforeNextMessage ==
    \A c \in DOMAIN conversations :
        LET log == conversations[c].messages
        IN  \A i \in 1..(Len(log) - 1) :
                log[i].type = "user"
                => log[i + 1].type \in {"assistant", "escalation"}

\* C12: a ticket inserted into the queue stands behind every ticket that
\* was already queued with an equal or higher priority and ahead of every
\* ticket that was already queued with a strictly lower priority
C12_InsertBehindEqualOrHigher ==
    [][\A i, j \in DOMAIN escalation_queue' :
          LET t == escalation_queue'[i]
              u == escalation_queue'[j]
          IN  (/\ ~InSeq(escalation_queue, t)
               /\ InSeq(escalation_queue, u))
              => IF priority_order(tickets'[u].priority)
                      <= priority_order(tickets'[t].priority)
                 THEN j < i
                 ELSE i < j]_vars

\* C26: for every agent, current_load equals the number of tickets that
\* are assigned to it (status assigned, assigned_agent_id that agent)
C26_LoadCountsAssignedTickets ==
    \A a \in AgentIds :
        agents[a].current_load =
            Cardinality({t \in DOMAIN tickets :
                            /\ tickets[t].status = "assigned"
                            /\ tickets[t].assigned_agent_id = a})

\* C27: when an escalated conversation whose ticket is assigned to an agent
\* is completed, the ticket becomes resolved and the agent's current_load
\* decreases by one
C27_CompletionReleasesAgent ==
    [][\A c \in DOMAIN conversations : \A t \in DOMAIN tickets :
          (/\ conversations[c].state = "escalated"
           /\ conversations'[c].state = "completed"
           /\ tickets[t].conversation_id = c
           /\ tickets[t].status = "assigned")
          => /\ tickets'[t].status = "resolved"
             /\ agents'[tickets[t].assigned_agent_id].current_load
                   = agents[tickets[t].assigned_agent_id].current_load - 1]_vars

\* C28: every conversation in state escalated has a ticket that waits in
\* the escalation queue or is assigned to an agent
C28_EscalatedHasTicket ==
    \A c \in DOMAIN conversations :
        conversations[c].state = "escalated"
        => \E t \in DOMAIN tickets :
              /\ tickets[t].conversation_id = c
              /\ \/ InSeq(escalation_queue, t)
                 \/ tickets[t].status = "assigned"

\* C29: transfer_to_agent of an active conversation to an agent that is
\* unknown, away, offline or at capacity returns false and leaves the
\* conversation's state, assigned_agent_id and escalated_at unchanged
C29_RefusedTransferLeavesConversation ==
    [][\A c \in DOMAIN conversations : \A a \in AgentInputs :
          (/\ TransferToAgent(c, a)
           /\ InSeq(active_conversations, c)
           /\ \/ a \notin AgentIds
              \/ agents[a].status \in {"away", "offline"}
              \/ AtCapacity(Manager, a))
          => /\ ret'.val = "false"
             /\ conversations'[c].state = conversations[c].state
             /\ conversations'[c].assigned_agent_id = conversations[c].assigned_agent_id
             /\ conversations'[c].escalated_at = conversations[c].escalated_at]_vars

\* C30: get_escalation_status returns a record for every conversation
\* that has a pending ticket waiting in the queue or an assigned ticket
C30_StatusForEveryTicket ==
    \A t \in DOMAIN tickets :
        (\/ InSeq(escalation_queue, t) /\ tickets[t].status = "pending"
         \/ tickets[t].status = "assigned")
        => get_escalation_status(Manager, tickets[t].conversation_id) /= NoStatus

\* C22: under fair scheduling of the matching pass no ticket waits in the
\* queue for ever while an agent is available, below capacity and speaks
\* its language: again and again the system is in a state where no queued
\* ticket has an eligible agent, every such ticket having been assigned
Waiting(t) ==
    /\ InSeq(escalation_queue, t)
    /\ tickets[t].status = "pending"

Matchable(t) == \E a \in AgentIds : Eligible(Manager, t, a)

UserMessages(log) == SelectSeq(log, LAMBDA x : x.type = "user")

C23_LoopRuleOnSixUserMessages ==
    [][\A c \in DOMAIN conversations :
          LET old  == conversations[c].messages
              new  == conversations'[c].messages
              log  == SubSeq(new, 1, Len(old) + 1)
              us   == UserMessages(log)
              last == {us[i].content : i \in (Len(us) - 5)..Len(us)}
          IN  (/\ Len(new) > Len(old)
               /\ new[Len(old) + 1].type = "user"
               /\ new[Len(old) + 1].content \notin KeywordMessages
               /\ Len(log) <= 20)
              => ((/\ Len(new) = Len(old) + 2
                   /\ new[Len(old) + 2].type = "escalation")
                  <=> (Len(us) >= 6 /\ Cardinality(last) <= 2))]_vars

\* C24: a user message with an urgent term leaves the urgency of its
\* conversation at urgent; one with a concern term and no urgent term
\* raises a normal urgency to high; any other user message leaves the
\* urgency as it was
C24_UrgencyFollowsLexicon ==
    [][\A c \in DOMAIN conversations :
          LET old  == conversations[c].messages
              new  == conversations'[c].messages
              was  == conversations[c].urgency_level
              text == Lower(MessageText(new[Len(old) + 1].content))
          IN  (/\ Len(new) > Len(old)
               /\ new[Len(old) + 1].type = "user")
              => conversations'[c].urgency_level =
                    (IF AnyKeyword(text, urgent_keywords) THEN "urgent"
                     ELSE IF AnyKeyword(text, high_keywords) /\ was = "normal"
                          THEN "high"
                     ELSE was)]_vars

\* the place of a level in the order normal < high < urgent
UrgencyRank(l) ==
    CASE l = "normal" -> 1
      [] l = "high"   -> 2
      [] OTHER        -> 3

\* C25: no step lowers the urgency level of a conversation in the order
\* normal < high < urgent
C25_UrgencyNeverDecreases ==
    [][\A c \in DOMAIN conversations :
          UrgencyRank(conversations'[c].urgency_level)
              >= UrgencyRank(conversations[c].urgency_level)]_vars

\* a conversation at urgent whose log goes on, after the message with the
\* urgent term, with a user message of a lower level and with a reply
C25_Witness ==
    \E c \in DOMAIN conversations :
        LET log == conversations[c].messages
        IN  /\ conversations[c].urgency_level = "urgent"
            /\ \E i, j, k \in DOMAIN log :
                  /\ i < j /\ i < k
                  /\ log[i].type = "user" /\ UrgencyOf[log[i].content] = "urgent"
                  /\ log[j].type = "user" /\ UrgencyOf[log[j].content] /= "urgent"
                  /\ log[k].type = "assistant"

=============================================================================
